---- MODULE Spec2Model ----
(***************************************************************************)
(* Model of the optiglot TypeScript harness:                               *)
(*   - Module.run / Module.evaluate   (module.ts, shipped in models.ts)    *)
(*   - Predict.generateText           (ai-sdk/predict.ts)                  *)
(*   - Teleprompt.compile / finalize  (teleprompt.ts)                      *)
(*   - createServer: POST /evaluate, POST /metric, POST /finalize          *)
(*                                    (server.ts)                          *)
(* JavaScript runs one synchronous segment at a time: every action below   *)
(* is one such segment, from the resumption of an await (or the delivery   *)
(* of an event) to the next suspension.                                    *)
(* Arrays are 0-based as in the source: an array is a function on a subset *)
(* of 0..len-1 (the written slots; `new Array(n)` starts with none).       *)
(***************************************************************************)
EXTENDS Integers, Sequences, FiniteSets, TLC

\* ------------------------------------------------------------------ bounds
MaxBatch == 3
MaxWorkers == 2
MaxFinalize == 2
MaxRequestBatch == 2
MaxEntries == 2
MaxOverlap == 1
MaxKeys == 2

\* ------------------------------------------------------------ input values
PredNames == {"a", "b"}

\* The examples of a batch.  The forward function and the metric are the
\* caller's; they are deterministic functions of the example:
\*   calls : the predictor calls forward makes, in order (fails: the model
\*           call of that predictor throws an Error named APICallError, which
\*           forward does not catch)
\*   end   : what forward does after its last successful call
\*           "return" a value, "returnNull" (return null or nothing),
\*           "throwNull" (throw null / reject with nothing), "throwString"
\*           (throw "boom"), "throwError" (throw new RangeError("boom"))
\*   met   : what the metric does for this example
\*           "number", "object" ({score, feedback}), "nofeedback" ({score}),
\*           "throws"
Examples ==
  { [id |-> "t1", calls |-> << [pred |-> "a", fails |-> FALSE] >>,
     end |-> "return", met |-> "number"],
    [id |-> "t2", calls |-> << [pred |-> "a", fails |-> FALSE],
                               [pred |-> "b", fails |-> FALSE] >>,
     end |-> "return", met |-> "object"],
    [id |-> "t3", calls |-> << [pred |-> "b", fails |-> FALSE],
                               [pred |-> "a", fails |-> TRUE] >>,
     end |-> "return", met |-> "nofeedback"],
    [id |-> "t4", calls |-> << >>,
     end |-> "throwNull", met |-> "number"],
    [id |-> "t5", calls |-> << [pred |-> "b", fails |-> FALSE] >>,
     end |-> "return", met |-> "throws"] }

\* The examples of a single run: those above and forward logic that ends in
\* the other ways.
RunExamples ==
  Examples \cup
  { [id |-> "t6", calls |-> << [pred |-> "a", fails |-> FALSE] >>,
     end |-> "throwError", met |-> "number"],
    [id |-> "t7", calls |-> << [pred |-> "a", fails |-> FALSE],
                               [pred |-> "b", fails |-> FALSE] >>,
     end |-> "throwString", met |-> "object"],
    [id |-> "t8", calls |-> << [pred |-> "b", fails |-> FALSE] >>,
     end |-> "returnNull", met |-> "number"],
    [id |-> "t9", calls |-> << [pred |-> "a", fails |-> TRUE] >>,
     end |-> "return", met |-> "number"] }

Batches == UNION { [0..(n - 1) -> Examples] : n \in 0..MaxBatch }

\* Candidates: mappings from a key to an instruction text.  "zz" names
\* nothing on the program.
Candidates ==
  { [k \in {"a", "b"} |-> IF k = "a" THEN "X" ELSE "Y"],
    [k \in {"a"} |-> "Y"],
    [k \in {"b", "zz"} |-> "X"] }

VARIABLES
  predictors,     \* this._predictors: predictor name -> its instructions
  batch,          \* evaluate's batch argument
  candidate,      \* evaluate's candidate argument
  capture_traces, \* evaluate's capture_traces argument
  numWorkers,     \* evaluate's numWorkers argument
  status,         \* of the evaluate call: init, running, returned, rejected
  currentIndex,   \* the shared cursor of the worker pool
  worker,         \* worker -> its position in the worker loop
  stores,         \* the trace arrays created by run, in creation order
  outputs,        \* evaluate's outputs array
  scores,         \* evaluate's scores array
  trajectories,   \* evaluate's trajectories array
  report,         \* the value evaluate returned
  claimed,        \* history: the (worker, index) claims, in order
  metricLog,      \* history: index -> what the metric did for it
  completed,      \* history: the indices whose slots were written, in order
  cpc,            \* compile's position: idle, listenWait, awaiting, closing,
                  \*   returned, thrown
  server,         \* the Fastify server: none, starting, failed, listening, closed
  proc,           \* the spawned process: none, spawned, failed, closed
  finalizeResolve,\* this.finalizeResolve: "undefined" or "set"
  optimization,   \* optimizationPromise: none, pending, or resolved with a payload
  result,         \* the promise compile awaits: none, pending, resolved, rejected
  signals,        \* history: finalize calls and process events, in order
  finalizeLog,    \* history: the best_candidate of every finalize call, in order
  metric,         \* this.metric of the Teleprompt: "undefined" or "set"
  config,         \* the config.yaml written for the process
  endpoint,       \* the route of the HTTP request followed: none, evaluate, metric
  entries,        \* the entries of a POST /metric body
  entryState,     \* POST /metric: entry index -> the promise of its async callback
  reply,          \* the HTTP response to the request followed
  others,         \* history: the other POST /evaluate requests the server handled
  writers,        \* history: index -> the worker that wrote its slots
  viaEvaluate,    \* a copy of the program put through evaluate's candidate update
  viaCompile      \* a copy of the program put through compile's candidate update

evalVars == << predictors, batch, candidate, capture_traces, numWorkers,
               status, currentIndex, worker, stores, outputs, scores,
               trajectories, report, claimed, metricLog, completed >>

compileVars == << cpc, server, proc, finalizeResolve, optimization, result,
                  signals, finalizeLog, metric, config >>

serverVars == << endpoint, entries, entryState, reply, others >>

applyVars == << viaEvaluate, viaCompile >>

vars == << evalVars, compileVars, serverVars, writers, applyVars >>

Workers == 1..numWorkers
Length(arr) == Cardinality(DOMAIN arr)
N == Length(batch)

\* ------------------------------------------------------------ the program
\* typeof this[name] on a Module whose predictors are PredNames: the
\* constructor copies every predictor onto the module object under its name;
\* the object also holds _predictors, _forward and the prototype's methods.
Methods == {"clone", "save", "load", "setForward", "forward", "run", "evaluate"}

ThisTypeof(name) ==
  IF name \in PredNames THEN "predictor"
  ELSE IF name = "_predictors" THEN "object"
  ELSE IF name \in Methods \cup {"_forward"} THEN "function"
  ELSE "undefined"

\* for (const [name, prompt] of Object.entries(candidate))
\*   if (this[name] && typeof this[name] !== "function")
\*     this[name].instructions = prompt
\* The effect on the predictors' instructions.
UpdatePromptsPartial(P, cand) ==
  [n \in PredNames |->
     IF n = "a" /\ n \in DOMAIN cand /\ ThisTypeof(n) \notin {"undefined", "function"}
     THEN cand[n] ELSE P[n]]

UpdatePrompts(P, cand) ==
  [n \in PredNames |->
     IF n \in DOMAIN cand /\ ThisTypeof(n) \notin {"undefined", "function"}
     THEN cand[n] ELSE P[n]]

\* ------------------------------------------------------- the worker pool
\* The state the synchronous segments of evaluate's workers read and write.
\* A worker: pc      idle | call (awaiting a model call) | fwd (awaiting
\*                   run) | metric (awaiting the metric) | done | dead
\*           index   the index it claimed
\*           pos     predictor calls of forward that have returned
\*           ctx     the store requestContext.run bound for its rollout
\*           store   the store generateText read with getStore()
\*           instr   the instructions prepareMessages put in the messages
\*           got     what its model calls returned so far
\*           thrown  what forward threw ("none": nothing)
\*           result  run's result (the prediction) once run has returned
NoPrediction == [output |-> [js |-> "null"], errorType |-> "unset",
                 errorMessage |-> "unset"]

NewWorker == [pc |-> "idle", index |-> -1, pos |-> 0, ctx |-> 0, store |-> 0,
              instr |-> "none", got |-> << >>, thrown |-> "none",
              result |-> NoPrediction]

Machine == [predictors |-> predictors, currentIndex |-> currentIndex,
            worker |-> worker, stores |-> stores, claimed |-> claimed]

\* currentIndex++ : the cursor after a claim
NextCursorSkip(c) == c + 2

NextCursor(c) == c + 1

\* requestContext.getStore() inside worker w's rollout: AsyncLocalStorage
\* gives the store that the enclosing requestContext.run bound.
GetStoreLatest(m, w) == Len(m.stores)

GetStore(m, w) == m.worker[w].ctx

\* Predict.generateText up to its await: prepareMessages reads the
\* predictor's instructions, getStore reads the store, the model call starts.
BeginCall(m, w) ==
  LET wk == m.worker[w]
      call == batch[wk.index].calls[wk.pos + 1]
  IN [m EXCEPT !.worker[w].pc = "call",
               !.worker[w].instr = m.predictors[call.pred],
               !.worker[w].store = GetStore(m, w)]

\* What forward throws at its end ("none": it returns).
EndThrown(ex) ==
  CASE ex.end = "throwNull" -> "null"
    [] ex.end = "throwString" -> "string"
    [] ex.end = "throwError" -> "RangeError"
    [] OTHER -> "none"

\* forward, from the return of its pos-th predictor call to its next await
\* or to its end.
ContinueForward(m, w) ==
  LET wk == m.worker[w]
      ex == batch[wk.index]
  IN IF wk.pos < Len(ex.calls)
     THEN BeginCall(m, w)
     ELSE [m EXCEPT !.worker[w].pc = "fwd",
                    !.worker[w].thrown = EndThrown(ex)]

\* The head of the worker loop (while / currentIndex++ / break), then run up
\* to its first await: a fresh trace, bound by requestContext.run, and the
\* start of forward.  getInputs, when given, maps the example to forward's
\* input and touches no state; forward is taken as a function of the example.
ClaimNext(m, w) ==
  IF m.currentIndex < N
  THEN LET index == m.currentIndex
           m1 == [m EXCEPT !.currentIndex = NextCursor(index)]
       IN IF index >= N
          THEN [m1 EXCEPT !.worker[w].pc = "done"]
          ELSE LET sid == Len(m1.stores) + 1
                   m2 == [m1 EXCEPT
                            !.stores = Append(@, [owner |-> index, trace |-> << >>]),
                            !.claimed = Append(@, << w, index >>),
                            !.worker[w] = [NewWorker EXCEPT !.index = index,
                                                            !.ctx = sid]]
               IN ContinueForward(m2, w)
  ELSE [m EXCEPT !.worker[w].pc = "done"]

\* Array.from({length: numWorkers}).map(async () => ...): the workers start
\* one after the other, each running to its first await.
RECURSIVE StartWorkersTwice(_, _)
StartWorkersTwice(m, w) ==
  IF w > numWorkers THEN m
  ELSE StartWorkersTwice(ClaimNext(ClaimNext(m, w), w), w + 1)

RECURSIVE StartWorkers(_, _)
StartWorkers(m, w) ==
  IF w > numWorkers THEN m ELSE StartWorkers(ClaimNext(m, w), w + 1)

Commit(m) ==
  /\ currentIndex' = m.currentIndex
  /\ worker' = m.worker
  /\ stores' = m.stores
  /\ claimed' = m.claimed

\* ------------------------------------------------------------- Module.run
\* The text a model call returns is a function of the messages it was given,
\* here of the instructions in the system message.
ModelText(instr) == instr

\* The value forward returns: a function of the example and of what its
\* model calls returned.
ForwardOutput(ex, got) ==
  IF ex.end = "returnNull" THEN [js |-> "null"]
  ELSE [js |-> "value", ex |-> ex.id, got |-> got]

\* e.name || "Error" and e.message || String(e), for the values forward
\* throws: an Error of the model call (APICallError), an Error of the host
\* logic (RangeError), a string (which has neither name nor message).
ErrorName(thrown) == IF thrown = "string" THEN "Error" ELSE thrown

ErrorMessage(thrown) ==
  IF thrown = "APICallError" THEN "model call failed" ELSE "boom"

\* run's try/catch around forward (thrown = "none": forward returned).
RunPrediction(ex, got, thrown) ==
  IF thrown = "none"
  THEN [output |-> ForwardOutput(ex, got), errorType |-> "null",
        errorMessage |-> "null"]
  ELSE [output |-> [js |-> "null"], errorType |-> ErrorName(thrown),
        errorMessage |-> ErrorMessage(thrown)]

\* ------------------------------------------------------------ the metric
\* The caller's metric: 1 for a success prediction, 0 for a failure one, in
\* the shape the example's `met` says.
MetricScore(prediction) == IF prediction.errorType = "null" THEN 1 ELSE 0

MetricVal(ex, prediction) ==
  CASE ex.met = "number" ->
         [kind |-> "number", score |-> MetricScore(prediction), feedback |-> "undefined"]
    [] ex.met = "object" ->
         [kind |-> "object", score |-> MetricScore(prediction), feedback |-> "custom feedback"]
    [] ex.met = "nofeedback" ->
         [kind |-> "object", score |-> MetricScore(prediction), feedback |-> "undefined"]
    [] OTHER ->
         [kind |-> "throw", score |-> 0, feedback |-> "undefined"]

\* `This trajectory got a score of ${score}.`
ScoreText(score) ==
  IF score = 1 THEN "This trajectory got a score of 1."
  ELSE "This trajectory got a score of 0."

\* evaluate's try/catch around the metric call and the normalisation of its
\* value.
MetricResultWrongDefault(metricVal) ==
  CASE metricVal.kind = "number" ->
         [score |-> metricVal.score, feedback |-> ScoreText(metricVal.score)]
    [] metricVal.kind = "object" ->
         [score |-> metricVal.score,
          feedback |-> IF metricVal.feedback = "undefined"
                       THEN ScoreText(metricVal.score) ELSE metricVal.feedback]
    [] OTHER ->
         [score |-> 1, feedback |-> "Metric evaluation failed."]

MetricResult(metricVal) ==
  CASE metricVal.kind = "number" ->
         [score |-> metricVal.score, feedback |-> ScoreText(metricVal.score)]
    [] metricVal.kind = "object" ->
         [score |-> metricVal.score,
          feedback |-> IF metricVal.feedback = "undefined"
                       THEN ScoreText(metricVal.score) ELSE metricVal.feedback]
    [] OTHER ->
         [score |-> 0, feedback |-> "Metric evaluation failed."]

\* ------------------------------------------------------- Module.evaluate
NewArray(n) == [length |-> n, at |-> << >>]

\* arr[i] = v
PutPush(arr, i, v) ==
  LET next == Cardinality(DOMAIN arr.at)
  IN [arr EXCEPT !.at = [j \in (DOMAIN arr.at) \cup {next} |->
                           IF j = next THEN v ELSE arr.at[j]]]

Put(arr, i, v) ==
  [arr EXCEPT !.at = [j \in (DOMAIN arr.at) \cup {i} |-> IF j = i THEN v ELSE arr.at[j]]]

\* The slot a worker writes: outputs[index], with its own `const index`.
SlotIndexShared(w) == currentIndex - 1

SlotIndex(w) == worker[w].index

\* trajectories: capture_traces ? trajectories : []
ReportTrajectoriesAlways == trajectories

ReportTrajectories == IF capture_traces THEN trajectories ELSE NewArray(0)

NoReport == [outputs |-> NewArray(0), scores |-> NewArray(0),
             trajectories |-> NewArray(0)]

\* The program as the candidate updates see it: the instructions of its
\* predictors, and the own property `instructions` of the _predictors record
\* itself ("undefined": the record has none).  NotApplied: the update has
\* not been made on the copy.
NotApplied ==
  [done |-> FALSE,
   program |-> [predictors |-> [n \in PredNames |-> "old"],
                recordInstructions |-> "undefined"]]

\* An HTTP response: its status code (0: none sent yet) and its body, which
\* is {error} or evaluate's report or {scores}.
NoReply == [status |-> 0, error |-> "none", response |-> NoReport, scores |-> << >>]

InitEval ==
  /\ predictors = [n \in PredNames |-> "old"]
  /\ batch \in Batches
  /\ candidate \in Candidates
  /\ capture_traces \in BOOLEAN
  /\ numWorkers \in 1..MaxWorkers
  /\ status = "init"
  /\ currentIndex = 0
  /\ worker = [w \in 1..numWorkers |-> NewWorker]
  /\ stores = << >>
  /\ outputs = NewArray(0)
  /\ scores = NewArray(0)
  /\ trajectories = NewArray(0)
  /\ report = NoReport
  /\ claimed = << >>
  /\ metricLog = << >>
  /\ completed = << >>
  /\ cpc = "idle"
  /\ server = "none"
  /\ proc = "none"
  /\ finalizeResolve = "undefined"
  /\ optimization = [state |-> "none"]
  /\ result = "none"
  /\ signals = << >>
  /\ finalizeLog = << >>
  /\ metric = "undefined"
  /\ config = [written |-> FALSE]
  /\ endpoint = "none"
  /\ entries = << >>
  /\ entryState = << >>
  /\ reply = NoReply
  /\ others = << >>
  /\ writers = << >>
  /\ viaEvaluate = NotApplied
  /\ viaCompile = NotApplied

\* evaluate, from its call to `await Promise.all(workers)`.
EvaluateCall ==
  /\ status = "init"
  /\ status' = "running"
  /\ predictors' = UpdatePrompts(predictors, candidate)
  /\ outputs' = NewArray(N)
  /\ scores' = NewArray(N)
  /\ trajectories' = NewArray(N)
  /\ Commit(StartWorkers([Machine EXCEPT
                            !.predictors = UpdatePrompts(predictors, candidate),
                            !.currentIndex = 0], 1))
  /\ UNCHANGED << batch, candidate, capture_traces, numWorkers, report, metricLog, completed, compileVars, serverVars, writers, applyVars >>

\* store.trace.push(entry): after the model call returned, and in the
\* catch block before the error is rethrown.
RecordedOnSuccess(trace, entry) ==
  IF entry.errorType = "null" THEN Append(trace, entry) ELSE trace

Recorded(trace, entry) == Append(trace, entry)

\* The model call of worker w's pending generateText settles: the entry is
\* pushed on the store read before the call, then forward goes on, or the
\* error is rethrown.
PredictReturn(w) ==
  /\ worker[w].pc = "call"
  /\ LET wk == worker[w]
         call == batch[wk.index].calls[wk.pos + 1]
         entry == [predictor |-> call.pred, instr |-> wk.instr,
                   rollout |-> wk.index,
                   output |-> IF call.fails THEN "" ELSE ModelText(wk.instr),
                   errorType |-> IF call.fails THEN "APICallError" ELSE "null"]
         m1 == [Machine EXCEPT !.stores[wk.store].trace = Recorded(@, entry)]
     IN IF call.fails
        THEN Commit([m1 EXCEPT !.worker[w].pc = "fwd",
                               !.worker[w].thrown = "APICallError"])
        ELSE Commit(ContinueForward(
               [m1 EXCEPT !.worker[w].pos = wk.pos + 1,
                          !.worker[w].got = Append(@, ModelText(wk.instr))], w))
  /\ UNCHANGED << predictors, batch, candidate, capture_traces, numWorkers,
                  status, outputs, scores, trajectories, report, metricLog, completed, compileVars, serverVars, writers, applyVars >>

\* forward has settled: run builds the prediction and returns, and the
\* worker calls the metric; or run's catch block itself throws (e.name of a
\* thrown null), run rejects, the worker's promise rejects and with it
\* Promise.all and evaluate.
RunReturn(w) ==
  /\ worker[w].pc = "fwd"
  /\ LET wk == worker[w]
     IN IF wk.thrown = "null"
        THEN /\ worker' = [worker EXCEPT ![w].pc = "dead"]
             /\ status' = IF status = "running" THEN "rejected" ELSE status
        ELSE /\ worker' = [worker EXCEPT
                             ![w].pc = "metric",
                             ![w].result = RunPrediction(batch[wk.index], wk.got, wk.thrown)]
             /\ status' = status
  /\ UNCHANGED << predictors, batch, candidate, capture_traces, numWorkers,
                  currentIndex, stores, outputs, scores, trajectories, report,
                  claimed, metricLog, completed, compileVars, serverVars, writers, applyVars >>

\* The metric has settled: its value is normalised, the slots are written,
\* and the worker goes round its loop.
MetricReturn(w) ==
  /\ worker[w].pc = "metric"
  /\ LET wk == worker[w]
         example == batch[wk.index]
         metricVal == MetricVal(example, wk.result)
         metricResult == MetricResult(metricVal)
         index == SlotIndex(w)
     IN /\ outputs' = Put(outputs, index, wk.result)
        /\ scores' = Put(scores, index, metricResult.score)
        /\ trajectories' =
             IF capture_traces
             THEN Put(trajectories, index,
                      [example_ind |-> index, example |-> example,
                       prediction |-> wk.result, trace |-> wk.ctx,
                       score |-> metricResult])
             ELSE trajectories
        /\ metricLog' = [i \in (DOMAIN metricLog) \cup {wk.index} |->
                           IF i = wk.index THEN metricVal.kind ELSE metricLog[i]]
        /\ completed' = Append(completed, wk.index)
        /\ writers' = [i \in (DOMAIN writers) \cup {index} |->
                         IF i = index THEN w ELSE writers[i]]
  /\ Commit(ClaimNext(Machine, w))
  /\ UNCHANGED << predictors, batch, candidate, capture_traces, numWorkers,
                  status, report, compileVars, serverVars, applyVars >>

\* Promise.all(workers) has resolved: evaluate returns its report.
EvaluateReturn ==
  /\ status = "running"
  /\ \A w \in Workers : worker[w].pc = "done"
  /\ status' = "returned"
  /\ report' = [outputs |-> outputs, scores |-> scores,
                trajectories |-> ReportTrajectories]
  /\ UNCHANGED << predictors, batch, candidate, capture_traces, numWorkers,
                  currentIndex, worker, stores, outputs, scores, trajectories,
                  claimed, metricLog, completed, compileVars, serverVars, writers, applyVars >>

Next ==
  \/ EvaluateCall
  \/ \E w \in Workers : PredictReturn(w)
  \/ \E w \in Workers : RunReturn(w)
  \/ \E w \in Workers : MetricReturn(w)
  \/ EvaluateReturn

Spec == InitEval /\ [][Next]_vars

\* A single run: evaluate on a batch of one example, for every way the
\* forward logic can end.
InitRun ==
  /\ predictors = [n \in PredNames |-> "old"]
  /\ batch \in [0..0 -> RunExamples]
  /\ candidate \in Candidates
  /\ capture_traces \in BOOLEAN
  /\ numWorkers = 1
  /\ status = "init"
  /\ currentIndex = 0
  /\ worker = [w \in 1..numWorkers |-> NewWorker]
  /\ stores = << >>
  /\ outputs = NewArray(0)
  /\ scores = NewArray(0)
  /\ trajectories = NewArray(0)
  /\ report = NoReport
  /\ claimed = << >>
  /\ metricLog = << >>
  /\ completed = << >>
  /\ cpc = "idle"
  /\ server = "none"
  /\ proc = "none"
  /\ finalizeResolve = "undefined"
  /\ optimization = [state |-> "none"]
  /\ result = "none"
  /\ signals = << >>
  /\ finalizeLog = << >>
  /\ metric = "undefined"
  /\ config = [written |-> FALSE]
  /\ endpoint = "none"
  /\ entries = << >>
  /\ entryState = << >>
  /\ reply = NoReply
  /\ others = << >>
  /\ writers = << >>
  /\ viaEvaluate = NotApplied
  /\ viaCompile = NotApplied

RunSpec == InitRun /\ [][Next]_vars

\* --------------------------------------------------- Teleprompt.compile
\* The steps of compile that can throw between `await server.listen` and
\* the spawn: fs.mkdirSync (before the try), dataset.toFile and
\* fs.writeFileSync (inside it).
SetupFailures == {"none", "mkdir", "toFile", "writeConfig"}

\* optimizationPromise.then(...): the best candidate goes onto the student's
\* predictors:  if (student._predictors[name]) ....instructions = prompt
UpdateStudentCreate(P, bestCandidate) ==
  [n \in PredNames \cup DOMAIN bestCandidate |->
     IF n \in DOMAIN bestCandidate THEN bestCandidate[n] ELSE P[n]]

UpdateStudent(P, bestCandidate) ==
  [n \in PredNames |-> IF n \in DOMAIN bestCandidate THEN bestCandidate[n] ELSE P[n]]

\* reject(...) / resolve(...) on the promise compile awaits: the first call
\* settles it, later ones do nothing.
SettleLast(current, outcome) == IF current = "none" THEN current ELSE outcome

Settle(current, outcome) == IF current = "pending" THEN outcome ELSE current

\* finalize: if (this.finalizeResolve) this.finalizeResolve(...).  The call
\* resolves optimizationPromise, and so runs its then-callback, only while
\* that promise is pending.
ResolvesEveryTime(fr, opt) == fr = "set"

Resolves(fr, opt) == fr = "set" /\ opt.state = "pending"

\* `return await new Promise(...)` resumes once that promise has settled;
\* catch rethrows, finally calls server.close() and awaits it.
AfterSettleEager(pc, before, after) ==
  IF pc = "awaiting" THEN "closing" ELSE pc

AfterSettle(pc, before, after) ==
  IF pc = "awaiting" /\ before = "pending" /\ after # "pending"
  THEN "closing" ELSE pc

InitCompile ==
  /\ predictors = [n \in PredNames |-> "old"]
  /\ batch = << >>
  /\ candidate = [k \in {"a"} |-> "Y"]
  /\ capture_traces = FALSE
  /\ numWorkers = 1
  /\ status = "init"
  /\ currentIndex = 0
  /\ worker = [w \in 1..1 |-> NewWorker]
  /\ stores = << >>
  /\ outputs = NewArray(0)
  /\ scores = NewArray(0)
  /\ trajectories = NewArray(0)
  /\ report = NoReport
  /\ claimed = << >>
  /\ metricLog = << >>
  /\ completed = << >>
  /\ cpc = "idle"
  /\ server = "none"
  /\ proc = "none"
  /\ finalizeResolve = "undefined"
  /\ optimization = [state |-> "none"]
  /\ result = "none"
  /\ signals = << >>
  /\ finalizeLog = << >>
  /\ metric = "undefined"
  /\ config = [written |-> FALSE]
  /\ endpoint = "none"
  /\ entries = << >>
  /\ entryState = << >>
  /\ reply = NoReply
  /\ others = << >>
  /\ writers = << >>
  /\ viaEvaluate = NotApplied
  /\ viaCompile = NotApplied

\* compile, from its call to `await server.listen(...)`.
CompileCall ==
  /\ cpc = "idle"
  /\ metric' = "set"
  /\ server' = "starting"
  /\ cpc' = "listenWait"
  /\ UNCHANGED << evalVars, serverVars, writers, applyVars, proc, finalizeResolve, optimization, result,
                  signals, finalizeLog, config >>

\* server.listen rejects (the port is taken): compile rejects, outside the try.
ListenFail ==
  /\ cpc = "listenWait"
  /\ server' = "failed"
  /\ cpc' = "thrown"
  /\ result' = "rejected"
  /\ UNCHANGED << evalVars, serverVars, writers, applyVars, proc, finalizeResolve, optimization, signals,
                  finalizeLog, metric, config >>

\* server.listen resolves.  compile runs on to its next await: the log
\* directory, then inside the try the dataset file, the seed candidate, the
\* config file, the completion promise, the spawn and the handlers, up to
\* `await new Promise`.  A throw of mkdirSync leaves compile at once; a throw
\* inside the try goes through catch and finally to `await server.close()`.
ListenOk(fail) ==
  /\ cpc = "listenWait"
  /\ server' = "listening"
  /\ CASE fail = "mkdir" ->
            /\ cpc' = "thrown"
            /\ result' = "rejected"
            /\ UNCHANGED << proc, finalizeResolve, optimization, config >>
       [] fail \in {"toFile", "writeConfig"} ->
            /\ cpc' = "closing"
            /\ result' = "rejected"
            /\ UNCHANGED << proc, finalizeResolve, optimization, config >>
       [] OTHER ->
            /\ config' = [written |-> TRUE, seed_candidate |-> predictors]
            /\ finalizeResolve' = "set"
            /\ optimization' = [state |-> "pending"]
            /\ proc' = "spawned"
            /\ result' = "pending"
            /\ cpc' = "awaiting"
  /\ UNCHANGED << evalVars, serverVars, writers, applyVars, signals, finalizeLog, metric >>

\* The process emits 'error' (it could not be spawned): reject(err).
ProcError ==
  /\ proc = "spawned"
  /\ proc' = "failed"
  /\ signals' = Append(signals, "error")
  /\ result' = Settle(result, "rejected")
  /\ cpc' = AfterSettle(cpc, result, result')
  /\ UNCHANGED << evalVars, serverVars, writers, applyVars, server, finalizeResolve, optimization, finalizeLog,
                  metric, config >>

\* The process emits 'close' with its exit code: if (code !== 0) reject(...).
ProcClose(code) ==
  /\ proc \in {"spawned", "failed"}
  /\ proc' = "closed"
  /\ signals' = Append(signals, IF code = 0 THEN "close0" ELSE "close1")
  /\ result' = IF code # 0 THEN Settle(result, "rejected") ELSE result
  /\ cpc' = AfterSettle(cpc, result, result')
  /\ UNCHANGED << evalVars, serverVars, writers, applyVars, server, finalizeResolve, optimization, finalizeLog,
                  metric, config >>

\* POST /finalize -> Teleprompt.finalize(best_candidate, results), and the
\* microtasks it queues: the first resolution of optimizationPromise runs the
\* then-callback, which updates the student and calls resolve(student).
\* The server answers while it is listening; it is taken to answer until
\* server.close() has completed (a server that refuses requests as soon as
\* close() is called allows fewer finalize calls, not more).
Finalize(bestCandidate) ==
  /\ server = "listening"
  /\ Len(finalizeLog) < MaxFinalize
  /\ finalizeLog' = Append(finalizeLog, bestCandidate)
  /\ signals' = Append(signals, "finalize")
  /\ IF Resolves(finalizeResolve, optimization)
     THEN /\ optimization' = [state |-> "resolved", bestCandidate |-> bestCandidate]
          /\ predictors' = UpdateStudent(predictors, bestCandidate)
          /\ result' = Settle(result, "resolved")
          /\ cpc' = AfterSettle(cpc, result, result')
     ELSE UNCHANGED << optimization, predictors, result, cpc >>
  /\ UNCHANGED << batch, candidate, capture_traces, numWorkers, status,
                  currentIndex, worker, stores, outputs, scores, trajectories,
                  report, claimed, metricLog, completed, server, proc,
                  finalizeResolve, metric, config, serverVars, writers, applyVars >>

\* server.close() has completed: compile returns the student or throws.
ServerClosed ==
  /\ cpc = "closing"
  /\ server' = "closed"
  /\ cpc' = IF result = "resolved" THEN "returned" ELSE "thrown"
  /\ UNCHANGED << evalVars, serverVars, writers, applyVars, proc, finalizeResolve, optimization, result,
                  signals, finalizeLog, metric, config >>

CompileNext ==
  \/ CompileCall
  \/ ListenFail
  \/ \E fail \in SetupFailures : ListenOk(fail)
  \/ ProcError
  \/ \E code \in {0, 1} : ProcClose(code)
  \/ \E bestCandidate \in Candidates : Finalize(bestCandidate)
  \/ ServerClosed

CompileSpec == InitCompile /\ [][CompileNext]_vars

\* Teleprompt.finalize called on the object itself (it is a public method),
\* at any time: before compile, while it awaits, after it has returned or
\* thrown.  The same code as behind POST /finalize, with no server between.
FinalizeCall(bestCandidate) ==
  /\ Len(finalizeLog) < MaxFinalize
  /\ finalizeLog' = Append(finalizeLog, bestCandidate)
  /\ signals' = Append(signals, "finalize")
  /\ IF Resolves(finalizeResolve, optimization)
     THEN /\ optimization' = [state |-> "resolved", bestCandidate |-> bestCandidate]
          /\ predictors' = UpdateStudent(predictors, bestCandidate)
          /\ result' = Settle(result, "resolved")
          /\ cpc' = AfterSettle(cpc, result, result')
     ELSE UNCHANGED << optimization, predictors, result, cpc >>
  /\ UNCHANGED << batch, candidate, capture_traces, numWorkers, status,
                  currentIndex, worker, stores, outputs, scores, trajectories,
                  report, claimed, metricLog, completed, server, proc,
                  finalizeResolve, metric, config, serverVars, writers, applyVars >>

\* A session and the finalize calls made on its Teleprompt from outside it.
SessionNext ==
  \/ CompileNext
  \/ \E bestCandidate \in Candidates : FinalizeCall(bestCandidate)

SessionSpec == InitCompile /\ [][SessionNext]_vars

\* ------------------------------------------- the two candidate updates
\* The update of Module.evaluate (this[name]) and the one of compile's
\* then-callback (student._predictors[name]), each made on a copy of the
\* same program with the same candidate.  The keys of a candidate are names
\* of predictors, a name of nothing, and names of other members of the
\* Module object: the _predictors record, the _forward function, a method.
WideKeys == PredNames \cup {"zz", "_predictors", "_forward", "run"}

WideCandidates ==
  UNION { [K -> {"X", "Y"}] : K \in { J \in SUBSET WideKeys : Cardinality(J) <= MaxKeys } }

Programs == [PredNames -> {"old", "X"}]

Program == [predictors |-> predictors, recordInstructions |-> "undefined"]

\* this[name] && typeof this[name] !== "function": this._predictors is an
\* object, so the key "_predictors" passes the test and the assignment
\* lands on the record.
EvaluateUpdate(prog, cand) ==
  [predictors |-> UpdatePrompts(prog.predictors, cand),
   recordInstructions |->
     IF "_predictors" \in DOMAIN cand
        /\ ThisTypeof("_predictors") \notin {"undefined", "function"}
     THEN cand["_predictors"] ELSE prog.recordInstructions]

\* student._predictors[name]: defined for the names of predictors only.
CompileUpdate(prog, cand) ==
  [predictors |-> UpdateStudent(prog.predictors, cand),
   recordInstructions |-> prog.recordInstructions]

InitApply ==
  /\ predictors \in Programs
  /\ batch = << >>
  /\ candidate \in WideCandidates
  /\ capture_traces = FALSE
  /\ numWorkers = 1
  /\ status = "init"
  /\ currentIndex = 0
  /\ worker = [w \in 1..1 |-> NewWorker]
  /\ stores = << >>
  /\ outputs = NewArray(0)
  /\ scores = NewArray(0)
  /\ trajectories = NewArray(0)
  /\ report = NoReport
  /\ claimed = << >>
  /\ metricLog = << >>
  /\ completed = << >>
  /\ cpc = "idle"
  /\ server = "none"
  /\ proc = "none"
  /\ finalizeResolve = "undefined"
  /\ optimization = [state |-> "none"]
  /\ result = "none"
  /\ signals = << >>
  /\ finalizeLog = << >>
  /\ metric = "undefined"
  /\ config = [written |-> FALSE]
  /\ endpoint = "none"
  /\ entries = << >>
  /\ entryState = << >>
  /\ reply = NoReply
  /\ others = << >>
  /\ writers = << >>
  /\ viaEvaluate = NotApplied
  /\ viaCompile = NotApplied

ApplyEvaluate ==
  /\ ~viaEvaluate.done
  /\ viaEvaluate' = [done |-> TRUE, program |-> EvaluateUpdate(Program, candidate)]
  /\ UNCHANGED << evalVars, compileVars, serverVars, writers, viaCompile >>

ApplyCompile ==
  /\ ~viaCompile.done
  /\ viaCompile' = [done |-> TRUE, program |-> CompileUpdate(Program, candidate)]
  /\ UNCHANGED << evalVars, compileVars, serverVars, writers, viaEvaluate >>

ApplyNext == ApplyEvaluate \/ ApplyCompile

ApplySpec == InitApply /\ [][ApplyNext]_vars

\* ------------------------------------------------------------ the server
\* createServer(teleprompt, module): the routes POST /evaluate and POST
\* /metric.  One request is followed from its arrival to its response
\* (endpoint, reply); beside it the server handles other POST /evaluate
\* requests, of which only the part that touches the module is kept: the
\* candidate they put on the predictors (the arrays, the cursor and the
\* traces of an evaluate call are its own).
DefaultNumThreads == 4

\* teleprompt.options.numThreads || 4   (0: the option is unset or zero)
ThreadOptions == {0, 1}

NumThreads(option) == IF option = 0 THEN DefaultNumThreads ELSE option

\* if (!teleprompt.metric) { reply.status(500).send({error}); return }
ConfiguredAlways(m) == TRUE

Configured(m) == m # "undefined"

NotConfiguredReply ==
  [NoReply EXCEPT !.status = 500,
                  !.error = "Metric not configured on Teleprompt instance"]

\* The response Fastify sends when the handler's promise rejects.
HandlerErrorReply ==
  [NoReply EXCEPT !.status = 500, !.error = "Internal Server Error"]

\* The batches of the POST /evaluate body followed: rollouts of two calls,
\* a rollout whose second call fails, a rollout whose run rejects.
RequestExamples == { ex \in Examples : ex.id \in {"t2", "t3", "t4"} }

RequestBatches == UNION { [0..(n - 1) -> RequestExamples] : n \in 0..MaxRequestBatch }

\* The entries of a POST /metric body: an example with a success or a
\* failure prediction.
MetricEntries ==
  { [gold |-> ex, prediction |-> RunPrediction(ex, << >>, thrown)] :
      ex \in Examples, thrown \in {"none", "APICallError"} }

EntryLists == UNION { [0..(n - 1) -> MetricEntries] : n \in 0..MaxEntries }

\* The candidates of the other POST /evaluate requests.
OtherCandidates == { cand \in Candidates : "b" \in DOMAIN cand }

NoScore == [score |-> 0, feedback |-> "none"]

\* The callback of entries.map: the normalisation of the metric's value.
EntryScore(metricVal) ==
  IF metricVal.kind = "number"
  THEN [score |-> metricVal.score, feedback |-> ScoreText(metricVal.score)]
  ELSE [score |-> metricVal.score,
        feedback |-> IF metricVal.feedback = "undefined"
                     THEN ScoreText(metricVal.score) ELSE metricVal.feedback]

InitServer ==
  /\ predictors = [n \in PredNames |-> "old"]
  /\ endpoint \in {"evaluate", "metric"}
  /\ IF endpoint = "evaluate"
     THEN /\ batch \in RequestBatches
          /\ candidate \in Candidates
          /\ capture_traces \in BOOLEAN
          /\ entries = << >>
     ELSE /\ batch = << >>
          /\ candidate = [k \in {"a"} |-> "Y"]
          /\ capture_traces = FALSE
          /\ entries \in EntryLists
  /\ numWorkers \in { NumThreads(option) : option \in ThreadOptions }
  /\ status = "init"
  /\ currentIndex = 0
  /\ worker = [w \in 1..numWorkers |-> NewWorker]
  /\ stores = << >>
  /\ outputs = NewArray(0)
  /\ scores = NewArray(0)
  /\ trajectories = NewArray(0)
  /\ report = NoReport
  /\ claimed = << >>
  /\ metricLog = << >>
  /\ completed = << >>
  /\ cpc = "idle"
  /\ server = "listening"
  /\ proc = "none"
  /\ finalizeResolve = "undefined"
  /\ optimization = [state |-> "none"]
  /\ result = "none"
  /\ signals = << >>
  /\ finalizeLog = << >>
  /\ metric \in {"undefined", "set"}
  /\ config = [written |-> FALSE]
  /\ entryState = << >>
  /\ reply = NoReply
  /\ others = << >>
  /\ writers = << >>
  /\ viaEvaluate = NotApplied
  /\ viaCompile = NotApplied

\* POST /evaluate arrives: the handler answers 500 when no metric is
\* configured, and otherwise calls module.evaluate and awaits it.
PostEvaluate ==
  /\ endpoint = "evaluate"
  /\ server = "listening"
  /\ status = "init"
  /\ reply = NoReply
  /\ IF Configured(metric)
     THEN EvaluateCall
     ELSE /\ reply' = NotConfiguredReply
          /\ UNCHANGED << evalVars, compileVars, endpoint, entries, entryState,
                          others, writers, applyVars >>

\* module.evaluate has settled: `return response`, or the handler rejects.
EvaluateReply ==
  /\ endpoint = "evaluate"
  /\ reply = NoReply
  /\ status \in {"returned", "rejected"}
  /\ reply' = IF status = "returned"
              THEN [NoReply EXCEPT !.status = 200, !.response = report]
              ELSE HandlerErrorReply
  /\ UNCHANGED << evalVars, compileVars, endpoint, entries, entryState, others,
                  writers, applyVars >>

\* Another POST /evaluate arrives, with candidate cand.  Its handler makes
\* the same check; module.evaluate then puts cand on the predictors before
\* its first await.
OtherEvaluate(cand) ==
  /\ server = "listening"
  /\ Len(others) < MaxOverlap
  /\ others' = Append(others, [candidate |-> cand,
                               accepted |-> Configured(metric),
                               inFlight |-> status = "running",
                               afterReply |-> reply # NoReply])
  /\ predictors' = IF Configured(metric)
                   THEN UpdatePrompts(predictors, cand) ELSE predictors
  /\ UNCHANGED << batch, candidate, capture_traces, numWorkers, status,
                  currentIndex, worker, stores, outputs, scores, trajectories,
                  report, claimed, metricLog, completed, compileVars, endpoint,
                  entries, entryState, reply, writers, applyVars >>

\* POST /metric arrives: the same check, then entries.map starts the
\* metric for every entry and the handler awaits Promise.all.  With no
\* entries Promise.all resolves at once.
PostMetric ==
  /\ endpoint = "metric"
  /\ server = "listening"
  /\ reply = NoReply
  /\ entryState = << >>
  /\ IF ~Configured(metric)
     THEN /\ reply' = NotConfiguredReply
          /\ entryState' = entryState
     ELSE IF Length(entries) = 0
     THEN /\ reply' = [NoReply EXCEPT !.status = 200]
          /\ entryState' = entryState
     ELSE /\ reply' = reply
          /\ entryState' = [i \in DOMAIN entries |->
                              [state |-> "pending", value |-> NoScore]]
  /\ UNCHANGED << evalVars, compileVars, endpoint, entries, others, writers, applyVars >>

\* The metric call of entry i settles: the callback returns the normalised
\* score, or the metric's failure rejects the callback's promise.
EntrySettles(i) ==
  /\ i \in DOMAIN entryState
  /\ entryState[i].state = "pending"
  /\ LET metricVal == MetricVal(entries[i].gold, entries[i].prediction)
     IN entryState' =
          IF metricVal.kind = "throw"
          THEN [entryState EXCEPT ![i].state = "rejected"]
          ELSE [entryState EXCEPT ![i] = [state |-> "fulfilled",
                                          value |-> EntryScore(metricVal)]]
  /\ UNCHANGED << evalVars, compileVars, endpoint, entries, reply, others,
                  writers, applyVars >>

\* Promise.all has settled: it resolves with the scores in the order of the
\* entries once every callback has returned, and rejects as soon as one has
\* failed; the handler returns {scores} or rejects.
MetricReply ==
  /\ endpoint = "metric"
  /\ reply = NoReply
  /\ entryState # << >>
  /\ \/ /\ \E i \in DOMAIN entryState : entryState[i].state = "rejected"
        /\ reply' = HandlerErrorReply
     \/ /\ \A i \in DOMAIN entryState : entryState[i].state = "fulfilled"
        /\ reply' = [NoReply EXCEPT
                       !.status = 200,
                       !.scores = [i \in DOMAIN entryState |-> entryState[i].value]]
  /\ UNCHANGED << evalVars, compileVars, endpoint, entries, entryState, others,
                  writers, applyVars >>

ServerNext ==
  \/ PostEvaluate
  \/ \E w \in Workers : PredictReturn(w)
  \/ \E w \in Workers : RunReturn(w)
  \/ \E w \in Workers : MetricReturn(w)
  \/ EvaluateReturn
  \/ EvaluateReply
  \/ \E cand \in OtherCandidates : OtherEvaluate(cand)
  \/ PostMetric
  \/ \E i \in DOMAIN entries : EntrySettles(i)
  \/ MetricReply

ServerSpec == InitServer /\ [][ServerNext]_vars

\* ================================================================ claims
Indices == 0..(N - 1)
Filled(arr) == DOMAIN arr.at = 0..(arr.length - 1)

\* forward run on its own, one predictor call after the other.
RECURSIVE ForwardAlone(_, _, _, _)
ForwardAlone(ex, P, pos, got) ==
  IF pos < Len(ex.calls)
  THEN LET call == ex.calls[pos + 1]
       IN IF call.fails
          THEN [got |-> got, thrown |-> "APICallError"]
          ELSE ForwardAlone(ex, P, pos + 1, Append(got, ModelText(P[call.pred])))
  ELSE [got |-> got, thrown |-> EndThrown(ex)]

\* What the rollout of batch[i] gives when nothing runs beside it, under the
\* instructions the candidate leaves on the predictors.
AlonePrediction(i) ==
  LET f == ForwardAlone(batch[i], UpdatePrompts(predictors, candidate), 0, << >>)
  IN RunPrediction(batch[i], f.got, f.thrown)

AloneScore(i) == MetricResult(MetricVal(batch[i], AlonePrediction(i)))

RunRejects(i) == batch[i].end = "throwNull" /\ \A j \in DOMAIN batch[i].calls : ~batch[i].calls[j].fails

\* C1: when evaluate returns, outputs and scores have the batch's length;
\* trajectories is the empty array when capture_traces is false, and has an
\* entry for every index, entry i carrying example_ind i, when it is true.
C1_ReportShape ==
  status = "returned" =>
    /\ report.outputs.length = N
    /\ report.scores.length = N
    /\ ~capture_traces => report.trajectories = NewArray(0)
    /\ capture_traces =>
         /\ report.trajectories.length = N
         /\ DOMAIN report.trajectories.at = Indices
         /\ \A i \in Indices : report.trajectories.at[i].example_ind = i

C1_Witness ==
  /\ status = "returned"
  /\ capture_traces
  /\ N >= 2
  /\ numWorkers >= 2

\* C2: every index is claimed by one worker, once: the claims are 0, 1, 2,
\* ... in order with none repeated and none skipped, every claim starts one
\* rollout, no two workers hold the same index, and when evaluate returns
\* every index of the batch has been claimed.
C2_ClaimedOnce ==
  /\ \A k \in DOMAIN claimed : claimed[k][2] = k - 1 /\ claimed[k][2] \in Indices
  /\ Len(stores) = Len(claimed)
  /\ \A k \in DOMAIN claimed : stores[k].owner = claimed[k][2]
  /\ \A v, w \in Workers :
       (v # w /\ worker[v].pc \in {"call", "fwd", "metric"}
              /\ worker[w].pc \in {"call", "fwd", "metric"})
         => worker[v].index # worker[w].index
  /\ status = "returned" => Len(claimed) = N

C2_Witness ==
  /\ status = "returned"
  /\ Len(claimed) = 3
  /\ claimed[1][1] # claimed[2][1]
  /\ claimed[3][1] = claimed[2][1]

\* C3: the outputs and scores evaluate returns are those of the rollouts run
\* alone, one after the other, whatever the number of workers and the order
\* in which the rollouts complete; and whether evaluate returns or rejects
\* depends on the batch alone.  So C = 1 and C = len(B) give the same result.
C3_SameAsSequential ==
  /\ status = "returned" =>
       /\ Filled(report.outputs) /\ Filled(report.scores)
       /\ \A i \in Indices :
            /\ report.outputs.at[i] = AlonePrediction(i)
            /\ report.scores.at[i] = AloneScore(i).score
       /\ \A i \in Indices : ~RunRejects(i)
  /\ status = "rejected" => \E i \in Indices : RunRejects(i)

C3_Witness ==
  /\ status = "returned"
  /\ numWorkers = N
  /\ N >= 2
  /\ completed[1] # 0

\* C4: the trace of a rollout holds only entries of predictor calls made by
\* that rollout's own forward, and a trajectory's trace is the one of the
\* rollout of its index.
C4_TraceIsolation ==
  /\ \A s \in DOMAIN stores :
       \A k \in DOMAIN stores[s].trace : stores[s].trace[k].rollout = stores[s].owner
  /\ \A i \in DOMAIN trajectories.at :
       stores[trajectories.at[i].trace].owner = i

C4_Witness ==
  /\ N >= 2
  /\ \E v, w \in Workers :
       /\ v # w
       /\ worker[v].pc = "call" /\ worker[v].pos = 1
       /\ worker[w].pc = "call" /\ worker[w].pos = 1
       /\ Len(stores[worker[v].ctx].trace) = 1
       /\ Len(stores[worker[w].ctx].trace) = 1

\* C5: a metric that throws never makes evaluate reject (evaluate rejects
\* only when a run rejects); and when evaluate returns and the metric threw
\* for exactly one index k, there are N scores, scores[k] is 0 with feedback
\* "Metric evaluation failed.", outputs[k] is the rollout's prediction, and
\* every other output and score is what it is without that failure.
MetricThrowsAt == { i \in Indices : batch[i].met = "throws" }

C5_MetricContained ==
  /\ status = "rejected" => \E w \in Workers : worker[w].pc = "dead" /\ RunRejects(worker[w].index)
  /\ \A i \in DOMAIN metricLog :
       metricLog[i] = "throw" =>
         /\ scores.at[i] = 0
         /\ capture_traces =>
              trajectories.at[i].score = [score |-> 0, feedback |-> "Metric evaluation failed."]
  /\ (status = "returned" /\ Cardinality(MetricThrowsAt) = 1) =>
       LET k == CHOOSE i \in Indices : batch[i].met = "throws"
       IN /\ report.scores.length = N
          /\ Filled(report.scores)
          /\ report.scores.at[k] = 0
          /\ report.outputs.at[k] = AlonePrediction(k)
          /\ \A i \in Indices \ {k} :
               /\ report.outputs.at[i] = AlonePrediction(i)
               /\ report.scores.at[i] = AloneScore(i).score

C5_Witness ==
  /\ status = "returned"
  /\ N = 3
  /\ Cardinality(MetricThrowsAt) = 1
  /\ capture_traces
  /\ \E k \in Indices : metricLog[k] = "throw" /\ AlonePrediction(k).errorType = "null"

\* C6: every predictor call of every rollout of the batch sees, for each
\* predictor the candidate names, the candidate's instructions; the
\* candidate is on all named predictors before the first rollout starts.
C6_CandidateApplied ==
  /\ \A s \in DOMAIN stores :
       \A k \in DOMAIN stores[s].trace :
         LET e == stores[s].trace[k]
         IN e.predictor \in DOMAIN candidate => e.instr = candidate[e.predictor]
  /\ \A w \in Workers :
       worker[w].pc = "call" =>
         LET p == batch[worker[w].index].calls[worker[w].pos + 1].pred
         IN p \in DOMAIN candidate => worker[w].instr = candidate[p]
  /\ stores # << >> =>
       \A n \in PredNames \cap DOMAIN candidate : predictors[n] = candidate[n]

C6_Witness ==
  /\ status = "returned"
  /\ candidate = [k \in {"a", "b"} |-> IF k = "a" THEN "X" ELSE "Y"]
  /\ \E s \in DOMAIN stores :
       /\ Len(stores[s].trace) = 2
       /\ stores[s].trace[1].instr = "X"
       /\ stores[s].trace[2].instr = "Y"

\* C7: once optimizationPromise is resolved it holds the best_candidate of
\* the first finalize call, and the student's instructions are the seed
\* instructions updated with that candidate alone, however many finalize
\* calls follow; a resolved compile returns the student in that state.
C7_FirstFinalizeWins ==
  optimization.state = "resolved" =>
    /\ optimization.bestCandidate = finalizeLog[1]
    /\ predictors = UpdateStudent(config.seed_candidate, finalizeLog[1])
    /\ result \in {"resolved", "rejected"}
    /\ signals[1] = "finalize" => result = "resolved"

C7_Witness ==
  /\ cpc = "returned"
  /\ Len(finalizeLog) = 2
  /\ finalizeLog[1] # finalizeLog[2]
  /\ UpdateStudent(config.seed_candidate, finalizeLog[1])
       # UpdateStudent(config.seed_candidate, finalizeLog[2])

\* C8: after the spawn the outcome is decided by the first of the signals
\* finalize / 'error' / 'close' with a non-zero code: resolved if it is a
\* finalize, rejected otherwise, pending while there is none; it never
\* changes afterwards, and compile returns or throws accordingly.
Decisive == {"finalize", "error", "close1"}

Decide(sig) ==
  IF \A k \in DOMAIN sig : sig[k] \notin Decisive THEN "pending"
  ELSE LET first == CHOOSE k \in DOMAIN sig :
                      /\ sig[k] \in Decisive
                      /\ \A j \in 1..(k - 1) : sig[j] \notin Decisive
       IN IF sig[first] = "finalize" THEN "resolved" ELSE "rejected"

C8_FirstSignalDecides ==
  proc # "none" =>
    /\ result = Decide(signals)
    /\ cpc = "awaiting" <=> result = "pending"
    /\ cpc = "returned" => result = "resolved"
    /\ cpc = "thrown" => result = "rejected"

C8_Witness ==
  /\ cpc = "returned"
  /\ signals = << "finalize", "close1" >>

\* C9 (as claimed): whenever compile has returned or thrown after the server
\* started listening, the server has been closed.
C9_AlwaysTornDown ==
  (cpc \in {"returned", "thrown"} /\ server \in {"listening", "closed"})
    => server = "closed"

\* C10 (as claimed): once the process has exited without any finalize call,
\* compile is no longer waiting.
C10_SettlesOnExit ==
  (proc = "closed" /\ finalizeLog = << >>) => cpc # "awaiting"

\* C11: when compile returns, the program it returns carries, on every
\* predictor the winning best_candidate names, that candidate's instructions;
\* the other predictors keep the instructions they had when compile was
\* called; a key that names no predictor is ignored: the program has the
\* predictors it had, no more.
C11_BestCandidateApplied ==
  cpc = "returned" =>
    /\ optimization.state = "resolved"
    /\ DOMAIN predictors = PredNames
    /\ \A n \in PredNames \cap DOMAIN optimization.bestCandidate :
         predictors[n] = optimization.bestCandidate[n]
    /\ \A n \in PredNames \ DOMAIN optimization.bestCandidate :
         predictors[n] = config.seed_candidate[n]

C11_Witness ==
  /\ cpc = "returned"
  /\ "zz" \in DOMAIN optimization.bestCandidate
  /\ predictors["b"] = "X"
  /\ predictors["a"] = "old"

\* C12: while no scoring function is configured, an evaluate or a metric
\* request is answered with the error response {error} and status 500; no
\* rollout is started, no candidate is put on a predictor, the metric is
\* not called, and the server goes on listening and answers the requests
\* that follow.
C12_NotConfigured ==
  metric = "undefined" =>
    /\ stores = << >> /\ claimed = << >> /\ status = "init"
    /\ predictors = [n \in PredNames |-> "old"]
    /\ entryState = << >>
    /\ reply # NoReply =>
         /\ reply.status = 500
         /\ reply.error = "Metric not configured on Teleprompt instance"
         /\ reply.response = NoReport
         /\ reply.scores = << >>
    /\ \A k \in DOMAIN others : ~others[k].accepted
    /\ server = "listening"

C12_Witness ==
  /\ metric = "undefined"
  /\ endpoint = "evaluate"
  /\ N = 2
  /\ reply.status = 500
  /\ \E k \in DOMAIN others : others[k].afterReply /\ ~others[k].accepted

\* C13 (as claimed): the response to a metric request carries one {score,
\* feedback} per entry, in the order of the entries, also when the metric
\* fails for some entry; the request starts no rollout.
C13_OneScorePerEntry ==
  (endpoint = "metric" /\ metric = "set" /\ reply # NoReply) =>
    /\ reply.status = 200
    /\ DOMAIN reply.scores = DOMAIN entries
    /\ \A i \in DOMAIN entries :
         LET metricVal == MetricVal(entries[i].gold, entries[i].prediction)
         IN metricVal.kind # "throw" => reply.scores[i] = EntryScore(metricVal)
    /\ stores = << >>

\* C14 (as claimed): run never rejects: whatever forward or a predictor
\* call throws, run returns a failure prediction whose errorType is the name
\* of what was thrown; and every slot written holds what its rollout gives
\* alone, whatever happened to the other rollouts.
C14_RunNeverPropagates ==
  /\ \A w \in Workers : worker[w].pc # "dead"
  /\ status # "rejected"
  /\ \A w \in Workers :
       (worker[w].pc = "metric" /\ worker[w].thrown # "none") =>
         /\ worker[w].result.errorType = ErrorName(worker[w].thrown)
         /\ worker[w].result.output = [js |-> "null"]
  /\ \A i \in DOMAIN outputs.at :
       /\ outputs.at[i] = AlonePrediction(i)
       /\ scores.at[i] = AloneScore(i).score

\* C15 (as claimed): every prediction run returns is either a success
\* (output not null, the error fields null) or a failure (errorType not
\* null, output null), whatever forward returns or throws.
C15_ExactlyOnePopulated ==
  \A w \in Workers :
    worker[w].pc = "metric" =>
      LET p == worker[w].result
      IN \/ /\ p.output # [js |-> "null"]
            /\ p.errorType = "null" /\ p.errorMessage = "null"
         \/ /\ p.errorType # "null"
            /\ p.output = [js |-> "null"]

\* C16: the trace run returns for a rollout holds, in order, the entry of
\* every predictor call that returned before the failure and then, when the
\* failure is that of a predictor call, the entry of that call with its
\* failure; it is the trace the metric is given and the trajectory stores.
\* While the rollout runs its trace is a prefix of that.
RECURSIVE ExpectedTrace(_, _, _, _)
ExpectedTrace(ex, P, i, pos) ==
  IF pos >= Len(ex.calls) THEN << >>
  ELSE LET call == ex.calls[pos + 1]
           instr == P[call.pred]
       IN IF call.fails
          THEN << [predictor |-> call.pred, instr |-> instr, rollout |-> i,
                   output |-> "", errorType |-> "APICallError"] >>
          ELSE << [predictor |-> call.pred, instr |-> instr, rollout |-> i,
                   output |-> ModelText(instr), errorType |-> "null"] >>
               \o ExpectedTrace(ex, P, i, pos + 1)

C17_Positional ==
  /\ DOMAIN outputs.at = DOMAIN writers
  /\ DOMAIN scores.at = DOMAIN writers
  /\ DOMAIN trajectories.at = IF capture_traces THEN DOMAIN writers ELSE {}
  /\ DOMAIN writers = { completed[k] : k \in DOMAIN completed }
  /\ \A j, k \in DOMAIN completed : j # k => completed[j] # completed[k]
  /\ \A i \in DOMAIN writers :
       /\ i \in Indices
       /\ \E k \in DOMAIN claimed : claimed[k] = << writers[i], i >>
       /\ outputs.at[i] = AlonePrediction(i)
       /\ scores.at[i] = MetricResult(MetricVal(batch[i], outputs.at[i])).score
       /\ capture_traces =>
            /\ trajectories.at[i].example_ind = i
            /\ trajectories.at[i].example = batch[i]
            /\ trajectories.at[i].prediction = outputs.at[i]
            /\ trajectories.at[i].score.score = scores.at[i]
            /\ stores[trajectories.at[i].trace].owner = i
  /\ status = "returned" =>
       /\ DOMAIN writers = Indices
       /\ report.outputs = outputs /\ report.scores = scores

C17_Witness ==
  /\ status = "returned"
  /\ capture_traces
  /\ numWorkers = 2
  /\ completed = << 1, 2, 0 >>
  /\ writers[0] = 1 /\ writers[1] = 2 /\ writers[2] = 2
  /\ batch[0].id # batch[1].id

\* C18: at every instant the rollouts that have started and whose results
\* are not yet written number at most min(C, len(batch)), and so do the
\* workers inside a rollout; with C = 1 the rollouts run one at a time, in
\* index order, all claimed by the one worker.
Min(a, b) == IF a < b THEN a ELSE b

InFlight == Len(claimed) - Len(completed)

C18_BoundedConcurrency ==
  /\ InFlight <= Min(numWorkers, N)
  /\ Cardinality({ w \in Workers : worker[w].pc \in {"call", "fwd", "metric"} })
       <= Min(numWorkers, N)
  /\ numWorkers = 1 =>
       /\ InFlight <= 1
       /\ \A k \in DOMAIN completed : completed[k] = k - 1
       /\ \A k \in DOMAIN claimed : claimed[k] = << 1, k - 1 >>

C18_Witness ==
  /\ numWorkers = 2
  /\ N = 3
  /\ Len(claimed) = 3
  /\ InFlight = 2
  /\ \A w \in Workers : worker[w].pc \in {"call", "fwd", "metric"}

\* C19 (as claimed): evaluate settles only by returning, it returns only
\* when every claimed index has had its result written and every worker has
\* left its loop, and it is never left with nothing to run before it has
\* returned.
C19_ReturnsWhenAllWritten ==
  /\ status # "rejected"
  /\ status = "returned" =>
       /\ \A w \in Workers : worker[w].pc = "done"
       /\ Len(completed) = Len(claimed)
       /\ Len(claimed) = N
  /\ (status = "running" /\ \A w \in Workers : worker[w].pc \in {"done", "dead"})
       => \A w \in Workers : worker[w].pc = "done"

\* C20 (as claimed): whatever other evaluate requests the server accepts
\* while the batch of a request is in flight, every predictor call of every
\* rollout of that batch runs under the candidate of its own request: the
\* instructions it sends, and records in its trace entry, are the
\* candidate's for every predictor the candidate names.
C20_OwnCandidate ==
  endpoint = "evaluate" =>
    /\ \A s \in DOMAIN stores :
         \A k \in DOMAIN stores[s].trace :
           stores[s].trace[k].predictor \in DOMAIN candidate =>
             stores[s].trace[k].instr = candidate[stores[s].trace[k].predictor]
    /\ \A w \in Workers :
         (worker[w].pc = "call"
            /\ batch[worker[w].index].calls[worker[w].pos + 1].pred \in DOMAIN candidate)
           => worker[w].instr
                = candidate[batch[worker[w].index].calls[worker[w].pos + 1].pred]

\* C21 (as claimed): the candidate update of evaluate and the one of
\* compile give the same program: the predictors the candidate names carry
\* its instructions, the others keep theirs, and nothing else on the
\* program is changed, whatever the keys of the candidate.
ExpectedProgram ==
  [predictors |-> [n \in PredNames |->
                     IF n \in DOMAIN candidate THEN candidate[n] ELSE predictors[n]],
   recordInstructions |-> "undefined"]

C21_SameRule ==
  /\ viaEvaluate.done => viaEvaluate.program = ExpectedProgram
  /\ viaCompile.done => viaCompile.program = ExpectedProgram
  /\ (viaEvaluate.done /\ viaCompile.done) => viaEvaluate.program = viaCompile.program

\* C22: the steps of a session come in order.  The metric is bound before
\* the server exists; the configuration is written only with the metric
\* bound and the server listening, and its seed candidate is the program's
\* instructions of that moment; the process is spawned only with the
\* configuration written and the completion signal installed; and
\* server.close() is called on a spawned session only once a finalize, an
\* 'error' or a non-zero exit has decided the outcome, so a returned compile
\* has been finalized and then torn down.
C22_StepOrder ==
  /\ server # "none" => metric = "set"
  /\ config.written =>
       /\ metric = "set"
       /\ server \in {"listening", "closed"}
       /\ finalizeResolve = "set"
       /\ proc # "none"
  /\ (config.written /\ optimization.state # "resolved") =>
       config.seed_candidate = predictors
  /\ proc # "none" =>
       /\ config.written
       /\ finalizeResolve = "set"
       /\ optimization.state # "none"
  /\ (proc # "none" /\ (cpc = "closing" \/ server = "closed")) =>
       /\ Decide(signals) # "pending"
       /\ result = Decide(signals)
  /\ cpc = "returned" =>
       /\ optimization.state = "resolved"
       /\ server = "closed"

C22_Witness ==
  /\ cpc = "returned"
  /\ server = "closed"
  /\ config.written
  /\ signals = << "close0", "finalize" >>

\* C23 (as claimed): a finalize call made when compile is not awaiting a
\* result -- before it has spawned the process, after it has returned, or
\* after it has thrown -- changes no predictor: no step taken from such a
\* state changes the program's instructions.
C23_NoChangeOutsideCompile ==
  [][(cpc \in {"idle", "listenWait", "thrown", "returned"})
       => (predictors' = predictors)]_vars

====
